---- MODULE Spec2Model ----
(***************************************************************************)
(* Model of the audio-transcriber webhook service (src/main.py).           *)
(*                                                                         *)
(* receive_webhook validates a payload and adds one background task per    *)
(* audio attachment; each task is process_audio_attachment, which calls    *)
(* download_audio_file, transcribe_audio, writes the transcript and        *)
(* removes the downloaded file.  The service runs on one asyncio event     *)
(* loop: a coroutine keeps the loop until it awaits network I/O, which     *)
(* the variable "running" records.  The background tasks of one request    *)
(* are awaited one after the other, in the order they were added, once     *)
(* the response is out; an exception leaving a task ends that loop.        *)
(*                                                                         *)
(* Strings the code takes apart or glues together (ids, filenames, paths,  *)
(* segment texts) are sequences of one-character strings.                  *)
(***************************************************************************)
EXTENDS Integers, Sequences, FiniteSets, TLC

VARIABLES payload, response, sent, tasks, unit, fs, running

vars == <<payload, response, sent, tasks, unit, fs, running>>

-----------------------------------------------------------------------------
(* Bounds *)

MaxDeliveries == 1      \* webhook deliveries received
MaxAttachments == 2     \* attachments of a latest message
MaxChunks == 1          \* chunks of a response body

-----------------------------------------------------------------------------
(* Payload model *)

AudioA == [id |-> <<"a">>, filename |-> <<"v", ".", "m">>, media_type |-> "audio"]
AudioB == [id |-> <<"b">>, filename |-> <<"n">>, media_type |-> "audio"]
Image == [id |-> <<"c">>, filename |-> <<"p", ".", "g">>, media_type |-> "image"]
UpperAudio == [id |-> <<"d">>, filename |-> <<"v", ".", "m">>, media_type |-> "Audio"]

Attachment == {AudioA, AudioB, Image, UpperAudio}

\* the sequences of at most n elements of S, no element twice: an attachment's
\* id is unique in its message
RECURSIVE SeqsUpTo(_, _)
SeqsUpTo(S, n) ==
    IF n = 0 THEN {<<>>}
    ELSE LET shorter == SeqsUpTo(S, n - 1)
         IN shorter \cup
            UNION {{Append(s, e) : e \in S \ {s[i] : i \in 1..Len(s)}} :
                     s \in {t \in shorter : Len(t) = n - 1}}

NoMessage == [absent |-> TRUE]

LatestMessage == [attachments : SeqsUpTo(Attachment, MaxAttachments)]

MissiveWebhook == [latest_message : LatestMessage \cup {NoMessage}]

-----------------------------------------------------------------------------
(* Attachment filter *)

\* variant: the media type is compared without regard to case
IsAudio_AnyCase(a) == a.media_type \in {"audio", "Audio", "AUDIO"}

IsAudio(a) == a.media_type = "audio"

audio_attachments(attachments) == SelectSeq(attachments, IsAudio)

-----------------------------------------------------------------------------
(* Responses of the endpoint *)

HTTP_202_ACCEPTED == 202
HTTP_204_NO_CONTENT == 204

NoMessageDetail == "No message found. Nothing to process."
NoAttachmentsDetail == "No attachments found on latest message. Nothing to process."
NoAudioDetail == "No audio attachments found. Nothing to transcribe."

NoContent(detail) == [status_code |-> HTTP_204_NO_CONTENT, detail |-> detail]

Accepted(n) ==
    [status_code |-> HTTP_202_ACCEPTED,
     status |-> "success",
     message |-> "Found " \o ToString(n) \o " audio attachments. Sent for transcription."]

\* variant: the endpoint without its check for a missing message is given
\* the detail of the check that follows
WebhookResponse_NoMessageCheck(p) ==
    IF p.latest_message = NoMessage THEN NoContent(NoAttachmentsDetail)
    ELSE IF p.latest_message.attachments = <<>> THEN NoContent(NoAttachmentsDetail)
    ELSE IF SelectSeq(p.latest_message.attachments, IsAudio) = <<>>
         THEN NoContent(NoAudioDetail)
    ELSE Accepted(Len(SelectSeq(p.latest_message.attachments, IsAudio)))

\* variant: the endpoint without its check for an empty attachments list
WebhookResponse_NoEmptyCheck(p) ==
    IF p.latest_message = NoMessage THEN NoContent(NoMessageDetail)
    ELSE IF SelectSeq(p.latest_message.attachments, IsAudio) = <<>>
         THEN NoContent(NoAudioDetail)
    ELSE Accepted(Len(SelectSeq(p.latest_message.attachments, IsAudio)))

\* variant: the endpoint without its check for an empty filter result
WebhookResponse_NoAudioCheck(p) ==
    IF p.latest_message = NoMessage THEN NoContent(NoMessageDetail)
    ELSE IF p.latest_message.attachments = <<>> THEN NoContent(NoAttachmentsDetail)
    ELSE Accepted(Len(SelectSeq(p.latest_message.attachments, IsAudio)))

WebhookResponse(p) ==
    IF p.latest_message = NoMessage THEN NoContent(NoMessageDetail)
    ELSE IF p.latest_message.attachments = <<>> THEN NoContent(NoAttachmentsDetail)
    ELSE IF audio_attachments(p.latest_message.attachments) = <<>>
         THEN NoContent(NoAudioDetail)
    ELSE Accepted(Len(audio_attachments(p.latest_message.attachments)))

\* variant: a task is added for every attachment, audio or not
ScheduledTasks_Unfiltered(p) ==
    IF p.latest_message # NoMessage
       /\ SelectSeq(p.latest_message.attachments, IsAudio) # <<>>
    THEN p.latest_message.attachments
    ELSE <<>>

ScheduledTasks(p) ==
    IF WebhookResponse(p).status_code = HTTP_202_ACCEPTED
    THEN audio_attachments(p.latest_message.attachments)
    ELSE <<>>

-----------------------------------------------------------------------------
(* File names *)

DataDir == <<"d", "a", "t", "a", "/">>

local_filename(a) == DataDir \o a.id \o <<"_">> \o a.filename

\* str.rfind: the last index of c in s, 0 when there is none
RFind(s, c) ==
    LET hits == {i \in 1..Len(s) : s[i] = c}
    IN IF hits = {} THEN 0 ELSE CHOOSE i \in hits : \A j \in hits : j <= i

\* os.path.splitext(p)[0]: the extension starts at the last dot after the
\* last separator, unless only dots stand between the separator and it
splitext_root(p) ==
    LET sepIndex == RFind(p, "/")
        dotIndex == RFind(p, ".")
    IN IF dotIndex > sepIndex
          /\ \E k \in (sepIndex + 1)..(dotIndex - 1) : p[k] # "."
       THEN SubSeq(p, 1, dotIndex - 1)
       ELSE p

TranscriptSuffix ==
    <<"_", "t", "r", "a", "n", "s", "c", "r", "i", "p", "t", "i", "o", "n", ".", "t", "x", "t">>

transcription_filename(a) ==
    DataDir \o a.id \o <<"_">> \o splitext_root(a.filename) \o TranscriptSuffix

-----------------------------------------------------------------------------
(* Full text of a transcription *)

Whitespace == {" ", "\t", "\n"}

RECURSIVE Join(_, _)
Join(sep, texts) ==
    IF texts = <<>> THEN <<>>
    ELSE IF Len(texts) = 1 THEN texts[1]
    ELSE texts[1] \o sep \o Join(sep, Tail(texts))

RECURSIVE LStrip(_)
LStrip(s) == IF s # <<>> /\ s[1] \in Whitespace THEN LStrip(Tail(s)) ELSE s

RECURSIVE RStrip(_)
RStrip(s) ==
    IF s # <<>> /\ s[Len(s)] \in Whitespace THEN RStrip(SubSeq(s, 1, Len(s) - 1)) ELSE s

Strip(s) == RStrip(LStrip(s))

\* variant: the joined text is not stripped
full_text_NoStrip(texts) == Join(<<" ">>, texts)

full_text(texts) == Strip(Join(<<" ">>, texts))

Hello == <<"H", "e", "l", "l", "o">>
World == <<"w", "o", "r", "l", "d">>

\* what the transcription capability may return: the texts of its segments
SegmentTexts ==
    { <<Hello, World>>,
      << <<" ", "a">>, <<"b", "\n">> >>,
      <<>> }

-----------------------------------------------------------------------------
(* State *)

Deliveries == DOMAIN payload

NotReceived == [received |-> FALSE]
Answered == [received |-> TRUE]
NoResponse == [status_code |-> 0]
Unbound == <<>>
NoTranscription == [unbound |-> TRUE]
NoUnit == <<>>
NoFd == <<>>

Statuses == {200, 206, 403}

\* a background task as add_task leaves it: process_audio_attachment not yet run
NewUnit(a) ==
    [attachment |-> a,
     pc |-> "pending",
     audio_path |-> Unbound,
     transcription |-> NoTranscription,
     failed |-> FALSE,
     status |-> 0,
     cause |-> "",
     error |-> "none",
     fd |-> NoFd,
     written |-> 0,
     downloads |-> 0,
     transcribes |-> 0,
     wrote |-> FALSE,
     cleanup |-> "none",
     log |-> {}]

Units == {<<d, i>> : d \in Deliveries, i \in 1..MaxAttachments}

Scheduled == {id \in Units : id[2] <= Len(unit[id[1]])}

U(id) == unit[id[1]][id[2]]

SetUnit(id, u) == unit' = [unit EXCEPT ![id[1]][id[2]] = u]

Init ==
    /\ payload = [d \in 1..MaxDeliveries |-> NotReceived]
    /\ response = [d \in 1..MaxDeliveries |-> NoResponse]
    /\ sent = {}
    /\ tasks = [d \in 1..MaxDeliveries |-> <<>>]
    /\ unit = [d \in 1..MaxDeliveries |-> <<>>]
    /\ fs = <<>>
    /\ running = NoUnit

-----------------------------------------------------------------------------
(* File system: a path maps to the file linked there *)

Exists(path) == path \in DOMAIN fs

\* open(path, "w"/"wb"): truncate the file linked at path, or link a new one
Open(path, id) ==
    IF Exists(path) THEN [fs EXCEPT ![path].data = <<>>]
    ELSE [p \in DOMAIN fs \cup {path} |->
            IF p = path THEN [ino |-> id, data |-> <<>>] ELSE fs[p]]

OpenedIno(path, id) == IF Exists(path) THEN fs[path].ino ELSE id

Hole == "hole"

\* a write of one chunk at offset off of an open file
WriteAt(data, off, chunk) ==
    [k \in 1..(IF off + 1 > Len(data) THEN off + 1 ELSE Len(data)) |->
        IF k = off + 1 THEN chunk
        ELSE IF k <= Len(data) THEN data[k]
        ELSE Hole]

\* variant: the chunk never reaches the file
Write_Lost(path, fd, off, chunk) == fs

\* f.write(chunk) through descriptor fd: reaches path only while the file
\* that was opened is still the one linked there
Write(path, fd, off, chunk) ==
    IF Exists(path) /\ fs[path].ino = fd
    THEN [fs EXCEPT ![path].data = WriteAt(@, off, chunk)]
    ELSE fs

\* os.remove(path) of an existing path
Remove(path) == [p \in DOMAIN fs \ {path} |-> fs[p]]

-----------------------------------------------------------------------------
(* Webhook endpoint *)

\* receive_webhook: runs to its return (or raise) without awaiting
receive_webhook(d) ==
    /\ running = NoUnit
    /\ payload[d] = NotReceived
    /\ \A e \in 1..(d - 1) : payload[e] # NotReceived
    /\ \E p \in MissiveWebhook :
         /\ payload' = [payload EXCEPT ![d] = p]
         /\ response' = [response EXCEPT ![d] = WebhookResponse(p)]
         /\ tasks' = [tasks EXCEPT ![d] = ScheduledTasks(p)]
         /\ unit' = [unit EXCEPT ![d] =
                       [i \in 1..Len(ScheduledTasks(p)) |-> NewUnit(ScheduledTasks(p)[i])]]
    /\ UNCHANGED <<sent, fs, running>>

\* the response of receive_webhook goes out to the caller, which ends the
\* request and the life of its payload; the background tasks of the request
\* are run after that
send_response(d) ==
    /\ running = NoUnit
    /\ response[d] # NoResponse
    /\ d \notin sent
    /\ sent' = sent \cup {d}
    /\ payload' = [payload EXCEPT ![d] = Answered]
    /\ UNCHANGED <<response, tasks, unit, fs, running>>

-----------------------------------------------------------------------------
(* Attachment processor *)

\* the background tasks of a request run after its response, in the order
\* added, each awaited before the next; an exception out of one ends the run
Runnable(id) ==
    /\ id \in Scheduled
    /\ id[1] \in sent
    /\ U(id).pc = "pending"
    /\ \A j \in 1..(id[2] - 1) :
         unit[id[1]][j].pc = "stopped" /\ unit[id[1]][j].error = "none"

\* process_audio_attachment up to the await of session.get
StartTask(id) ==
    /\ running = NoUnit
    /\ Runnable(id)
    /\ SetUnit(id, [U(id) EXCEPT !.pc = "get",
                                  !.downloads = @ + 1,
                                  !.log = @ \cup {"processing"}])
    /\ UNCHANGED <<payload, response, sent, tasks, fs, running>>

\* download_audio_file raises: the except clause logs and raises the
\* "download failed" HTTPException, which process_audio_attachment is about
\* to catch
DownloadFailed(u, cause) ==
    [u EXCEPT !.pc = "raised",
              !.cause = "Failed to download audio file: " \o cause,
              !.log = @ \cup {"download_failed"}]

\* variant: the detail of the HTTPException does not name the status
HTTPExceptionStr_NoStatus(st) == "500: Failed to download audio file"

\* str(e) of the HTTPException raised for a response status other than 200,
\* which the except clause of download_audio_file catches like any other
HTTPExceptionStr(st) == "500: Failed to download audio file: HTTP " \o ToString(st)

\* session.get returns or raises; on status 200 the destination is opened
GetResponse(id) ==
    /\ running = NoUnit
    /\ id \in Scheduled
    /\ U(id).pc = "get"
    /\ \/ /\ SetUnit(id, DownloadFailed(U(id), "timeout"))
          /\ running' = id
          /\ UNCHANGED fs
       \/ \E st \in Statuses \ {200} :
            /\ SetUnit(id, [DownloadFailed(U(id), HTTPExceptionStr(st)) EXCEPT !.status = st])
            /\ running' = id
            /\ UNCHANGED fs
       \/ /\ fs' = Open(local_filename(U(id).attachment), id)
          /\ SetUnit(id, [U(id) EXCEPT !.pc = "read",
                                       !.status = 200,
                                       !.fd = OpenedIno(local_filename(U(id).attachment), id)])
          /\ UNCHANGED running
    /\ UNCHANGED <<payload, response, sent, tasks>>

\* the k-th chunk of the body served at the attachment's url
Chunk(a, k) == <<a.id, k>>

\* response.content.read returns a chunk, which is written
ReadChunk(id) ==
    /\ running = NoUnit
    /\ id \in Scheduled
    /\ U(id).pc = "read"
    /\ U(id).written < MaxChunks
    /\ fs' = Write(local_filename(U(id).attachment), U(id).fd, U(id).written,
                   Chunk(U(id).attachment, U(id).written + 1))
    /\ SetUnit(id, [U(id) EXCEPT !.written = @ + 1])
    /\ UNCHANGED <<payload, response, sent, tasks, running>>

\* response.content.read raises (timeout, connection lost): the file is
\* closed as it is
ReadFail(id) ==
    /\ running = NoUnit
    /\ id \in Scheduled
    /\ U(id).pc = "read"
    /\ SetUnit(id, [DownloadFailed(U(id), "read error") EXCEPT !.fd = NoFd, !.written = 0])
    /\ running' = id
    /\ UNCHANGED <<payload, response, sent, tasks, fs>>

\* response.content.read returns no chunk: the file is closed, the response
\* and the session are released
ReadEnd(id) ==
    /\ running = NoUnit
    /\ id \in Scheduled
    /\ U(id).pc = "read"
    /\ SetUnit(id, [U(id) EXCEPT !.pc = "closing", !.fd = NoFd])
    /\ UNCHANGED <<payload, response, sent, tasks, fs, running>>

\* download_audio_file returns local_filename, bound to audio_path
DownloadReturn(id) ==
    /\ running = NoUnit
    /\ id \in Scheduled
    /\ U(id).pc = "closing"
    /\ SetUnit(id, [U(id) EXCEPT !.pc = "downloaded",
                                  !.audio_path = local_filename(U(id).attachment),
                                  !.log = @ \cup {"downloaded", "audio_saved"}])
    /\ running' = id
    /\ UNCHANGED <<payload, response, sent, tasks, fs>>

\* transcribe_audio is called
TranscribeCall(id) ==
    /\ running = id
    /\ U(id).pc = "downloaded"
    /\ SetUnit(id, [U(id) EXCEPT !.pc = "transcribing",
                                  !.transcribes = @ + 1])
    /\ UNCHANGED <<payload, response, sent, tasks, fs, running>>

\* variant: the error of the capability is not wrapped in an HTTPException,
\* so that process_audio_attachment does not catch it
TranscriptionFailed_Unwrapped(u) ==
    [u EXCEPT !.pc = "stopped",
              !.error = "Exception",
              !.log = @ \cup {"transcription_failed"}]

TranscriptionFailed(u) ==
    [u EXCEPT !.pc = "raised",
              !.cause = "Transcription failed",
              !.log = @ \cup {"transcription_failed"}]

Transcription(texts) == [segments |-> texts, full_text |-> full_text(texts)]

\* transcribe_audio returns the transcription or raises; it does not await
TranscribeReturn(id) ==
    /\ running = id
    /\ U(id).pc = "transcribing"
    /\ \/ SetUnit(id, TranscriptionFailed(U(id)))
       \/ /\ Exists(U(id).audio_path)
          /\ \E texts \in SegmentTexts :
               SetUnit(id, [U(id) EXCEPT !.pc = "transcribed",
                                         !.transcription = Transcription(texts),
                                         !.log = @ \cup {"transcription_completed"}])
    /\ UNCHANGED <<payload, response, sent, tasks, fs, running>>

\* variant: the downloaded file is removed before the transcript is written
WriteTranscript_RemoveFirst(id) ==
    /\ running = id
    /\ U(id).pc = "transcribed"
    /\ fs' = [p \in (DOMAIN fs \ {U(id).audio_path})
                      \cup {transcription_filename(U(id).attachment)} |->
                IF p = transcription_filename(U(id).attachment)
                THEN [ino |-> id, data |-> U(id).transcription.full_text]
                ELSE fs[p]]
    /\ SetUnit(id, [U(id) EXCEPT !.pc = "persisted",
                                  !.wrote = TRUE,
                                  !.log = @ \cup {"transcription_saved"}])
    /\ UNCHANGED <<payload, response, sent, tasks, running>>

\* the transcript is written
WriteTranscript(id) ==
    /\ running = id
    /\ U(id).pc = "transcribed"
    /\ fs' = [Open(transcription_filename(U(id).attachment), id)
                EXCEPT ![transcription_filename(U(id).attachment)].data =
                         U(id).transcription.full_text]
    /\ SetUnit(id, [U(id) EXCEPT !.pc = "persisted",
                                  !.wrote = TRUE,
                                  !.log = @ \cup {"transcription_saved"}])
    /\ UNCHANGED <<payload, response, sent, tasks, running>>

\* variant: the except clause logs the error and starts over
HandleError_Retry(id) ==
    /\ running = id
    /\ U(id).pc = "raised"
    /\ SetUnit(id, [U(id) EXCEPT !.pc = "get",
                                  !.downloads = @ + 1,
                                  !.log = @ \cup {"error_processing"}])
    /\ running' = NoUnit
    /\ UNCHANGED <<payload, response, sent, tasks, fs>>

\* except HTTPException: the error is logged
HandleError(id) ==
    /\ running = id
    /\ U(id).pc = "raised"
    /\ SetUnit(id, [U(id) EXCEPT !.pc = "failed",
                                  !.failed = TRUE,
                                  !.log = @ \cup {"error_processing"}])
    /\ UNCHANGED <<payload, response, sent, tasks, fs, running>>

\* variant: os.remove is at the end of the try block, so that it runs on the
\* success path only
Finished_RemoveInTry(u) ==
    LET v == [u EXCEPT !.pc = "stopped", !.log = @ \cup {"finished"}]
    IN IF u.failed
       THEN [v EXCEPT !.error = "UnboundLocalError"]
       ELSE IF ~(u.audio_path \in DOMAIN fs)
       THEN [v EXCEPT !.cleanup = "missing", !.error = "FileNotFoundError"]
       ELSE [v EXCEPT !.cleanup = "removed"]

\* what follows the try statement: the log line, os.remove(audio_path) and
\* return transcription["full_text"]
Finished(u) ==
    LET v == [u EXCEPT !.pc = "stopped", !.log = @ \cup {"finished"}]
    IN IF u.audio_path = Unbound
       THEN [v EXCEPT !.cleanup = "unbound", !.error = "UnboundLocalError"]
       ELSE IF ~Exists(u.audio_path)
       THEN [v EXCEPT !.cleanup = "missing", !.error = "FileNotFoundError"]
       ELSE IF u.transcription = NoTranscription
       THEN [v EXCEPT !.cleanup = "removed", !.error = "UnboundLocalError"]
       ELSE [v EXCEPT !.cleanup = "removed"]

\* variant: a unit that failed puts its error in place of the response
Finish_ReportsFailure(id) ==
    /\ running = id
    /\ U(id).pc \in {"persisted", "failed"}
    /\ SetUnit(id, [Finished(U(id)) EXCEPT !.written = 0])
    /\ fs' = IF Finished(U(id)).cleanup = "removed" THEN Remove(U(id).audio_path) ELSE fs
    /\ running' = NoUnit
    /\ response' = [response EXCEPT ![id[1]] =
                      IF U(id).failed
                      THEN [status_code |-> 500, detail |-> U(id).cause]
                      ELSE @]
    /\ UNCHANGED <<payload, sent, tasks>>

Finish(id) ==
    /\ running = id
    /\ U(id).pc \in {"persisted", "failed"}
    /\ SetUnit(id, [Finished(U(id)) EXCEPT !.written = 0])
    /\ fs' = IF Finished(U(id)).cleanup = "removed" THEN Remove(U(id).audio_path) ELSE fs
    /\ running' = NoUnit
    /\ UNCHANGED <<payload, response, sent, tasks>>

-----------------------------------------------------------------------------

Next ==
    \/ \E d \in Deliveries : receive_webhook(d)
    \/ \E d \in Deliveries : send_response(d)
    \/ \E id \in Units : StartTask(id)
    \/ \E id \in Units : GetResponse(id)
    \/ \E id \in Units : ReadChunk(id)
    \/ \E id \in Units : ReadFail(id)
    \/ \E id \in Units : ReadEnd(id)
    \/ \E id \in Units : DownloadReturn(id)
    \/ \E id \in Units : TranscribeCall(id)
    \/ \E id \in Units : TranscribeReturn(id)
    \/ \E id \in Units : WriteTranscript(id)
    \/ \E id \in Units : HandleError(id)
    \/ \E id \in Units : Finish(id)

Spec == Init /\ [][Next]_vars

\* two deliveries, for what is said of a pair of them
InitPair ==
    /\ payload = <<NotReceived, NotReceived>>
    /\ response = <<NoResponse, NoResponse>>
    /\ sent = {}
    /\ tasks = << <<>>, <<>> >>
    /\ unit = << <<>>, <<>> >>
    /\ fs = <<>>
    /\ running = NoUnit

\* the event loop keeps running whatever is ready, and every download and
\* every transcription call returns or fails
FairSpec == Spec /\ WF_vars(Next)

SpecPair == InitPair /\ [][Next]_vars

\* attachments whose ids and filenames hold the "_" that joins them in a path
NameA == [id |-> <<"a">>, filename |-> <<"b", "_", "c", ".", "m">>, media_type |-> "audio"]
NameB == [id |-> <<"a", "_", "b">>, filename |-> <<"c", ".", "m">>, media_type |-> "audio"]
NameC == [id |-> <<"b">>, filename |-> <<"c", ".", "m">>, media_type |-> "audio"]
NameD == [id |-> <<"c">>, filename |-> <<"c", ".", "w">>, media_type |-> "audio"]

NameAttachment == {NameA, NameB, NameC, NameD}

\* one delivery of two of these attachments, accepted and answered
InitNames ==
    \E a, b \in NameAttachment :
        /\ a # b
        /\ payload = <<Answered>>
        /\ response = <<Accepted(2)>>
        /\ sent = {1}
        /\ tasks = << <<a, b>> >>
        /\ unit = << <<NewUnit(a), NewUnit(b)>> >>
        /\ fs = <<>>
        /\ running = NoUnit

\* the processing of the scheduled units
NextUnits ==
    \/ \E id \in Units : StartTask(id)
    \/ \E id \in Units : GetResponse(id)
    \/ \E id \in Units : ReadChunk(id)
    \/ \E id \in Units : ReadFail(id)
    \/ \E id \in Units : ReadEnd(id)
    \/ \E id \in Units : DownloadReturn(id)
    \/ \E id \in Units : TranscribeCall(id)
    \/ \E id \in Units : TranscribeReturn(id)
    \/ \E id \in Units : WriteTranscript(id)
    \/ \E id \in Units : HandleError(id)
    \/ \E id \in Units : Finish(id)

SpecNames == InitNames /\ [][NextUnits]_vars

-----------------------------------------------------------------------------
(* Vocabulary of the properties *)

\* the deliveries whose request is being handled: their payload is at hand
Received == {d \in Deliveries : payload[d] \notin {NotReceived, Answered}}

HasMessage(d) == d \in Received /\ payload[d].latest_message # NoMessage

AttachmentsOf(d) == payload[d].latest_message.attachments

\* positions of the attachments whose media type is exactly "audio"
AudioIdx(atts) == {i \in 1..Len(atts) : atts[i].media_type = "audio"}

\* the k-th smallest element of a set of positions
Nth(idx, k) == CHOOSE i \in idx : Cardinality({j \in idx : j <= i}) = k

Stopped(id) == U(id).pc = "stopped"

DownloadFailure(id) == "download_failed" \in U(id).log

\* the unit's download returned a path and its transcription returned a result
Succeeded(id) == U(id).audio_path # Unbound /\ U(id).transcription # NoTranscription

\* the state of the per-attachment state machine a unit is in
State(u) ==
    CASE u.pc = "pending" -> "Pending"
      [] u.pc \in {"get", "read", "closing"} -> "Downloading"
      [] u.pc = "raised" -> IF u.transcribes = 0 THEN "Downloading" ELSE "Transcribing"
      [] u.pc = "downloaded" -> "Downloaded"
      [] u.pc = "transcribing" -> "Transcribing"
      [] u.pc = "transcribed" -> "Transcribed"
      [] u.pc = "persisted" -> "Persisted"
      [] u.pc = "failed" -> "Failed"
      [] u.pc = "stopped" ->
            IF u.failed THEN "Failed"
            ELSE IF u.cleanup = "removed" /\ u.error = "none" THEN "Cleaned"
            ELSE "Persisted"

-----------------------------------------------------------------------------
(* C1: failure isolation.  In a delivery with two audio attachments, a unit *)
(* whose download failed stops with no error escaping it and with no        *)
(* transcript written, and its sibling is run: once the failed unit has     *)
(* stopped and the delivery has no unit in progress, the sibling has        *)
(* stopped too, with its transcript written if its download and             *)
(* transcription succeeded.                                                 *)
C1_FailureIsolation ==
    \A d \in Deliveries : \A a, b \in 1..Len(unit[d]) :
        (a # b /\ Stopped(<<d, a>>) /\ DownloadFailure(<<d, a>>)) =>
            /\ U(<<d, a>>).error = "none"
            /\ ~U(<<d, a>>).wrote
            /\ (\A i \in 1..Len(unit[d]) : unit[d][i].pc \in {"pending", "stopped"})
                 => Stopped(<<d, b>>)
            /\ (Stopped(<<d, b>>) /\ Succeeded(<<d, b>>)) => U(<<d, b>>).wrote

-----------------------------------------------------------------------------
(* C2: a payload whose latest message holds N >= 1 audio attachments gets   *)
(* exactly N units, the k-th for the k-th audio attachment, and the         *)
(* accepted response reporting N; no unit leaves Pending before the         *)
(* response has gone out.                                                   *)
C2_ScheduledCount ==
    /\ \A d \in Deliveries :
        (HasMessage(d) /\ AudioIdx(AttachmentsOf(d)) # {}) =>
            LET atts == AttachmentsOf(d)
                N == Cardinality(AudioIdx(atts))
            IN /\ Len(tasks[d]) = N
               /\ Len(unit[d]) = N
               /\ \A k \in 1..N :
                    /\ tasks[d][k] = atts[Nth(AudioIdx(atts), k)]
                    /\ unit[d][k] = NewUnit(tasks[d][k])
               /\ response[d].status_code = 202
               /\ response[d].status = "success"
               /\ response[d].message =
                    "Found " \o ToString(N) \o " audio attachments. Sent for transcription."
    /\ \A id \in Scheduled : U(id).pc # "pending" => id[1] \in sent

\* two attachments, one audio and one not, were scheduled as one unit
C2_Witness ==
    \E d \in Deliveries :
        /\ HasMessage(d)
        /\ Len(AttachmentsOf(d)) = 2
        /\ Cardinality(AudioIdx(AttachmentsOf(d))) = 1
        /\ Len(unit[d]) = 1
        /\ response[d].status_code = 202

-----------------------------------------------------------------------------
(* C3: a payload without latest_message is answered 204 with the "no       *)
(* message" detail, and nothing is scheduled.                              *)
C3_NoMessage ==
    \A d \in Received :
        payload[d].latest_message = NoMessage =>
            /\ response[d] = [status_code |-> 204,
                              detail |-> "No message found. Nothing to process."]
            /\ tasks[d] = <<>>
            /\ unit[d] = <<>>

C3_Witness ==
    \E d \in Received :
        payload[d].latest_message = NoMessage /\ response[d].status_code = 204

-----------------------------------------------------------------------------
(* C4: a payload whose latest message has an empty attachments list is     *)
(* answered 204 with the "no attachments" detail, which is neither of the  *)
(* other two details, and nothing is scheduled.                            *)
C4_NoAttachments ==
    \A d \in Deliveries :
        (HasMessage(d) /\ AttachmentsOf(d) = <<>>) =>
            /\ response[d] =
                 [status_code |-> 204,
                  detail |-> "No attachments found on latest message. Nothing to process."]
            /\ response[d].detail # "No message found. Nothing to process."
            /\ response[d].detail # "No audio attachments found. Nothing to transcribe."
            /\ tasks[d] = <<>>
            /\ unit[d] = <<>>

C4_Witness ==
    \E d \in Received :
        HasMessage(d) /\ AttachmentsOf(d) = <<>> /\ response[d].status_code = 204

-----------------------------------------------------------------------------
(* C5: a payload whose latest message has attachments, none of media type  *)
(* "audio", is answered 204 with the "no audio attachments" detail, and    *)
(* nothing is scheduled.                                                   *)
C5_NoAudio ==
    \A d \in Deliveries :
        (HasMessage(d) /\ AttachmentsOf(d) # <<>> /\ AudioIdx(AttachmentsOf(d)) = {}) =>
            /\ response[d] =
                 [status_code |-> 204,
                  detail |-> "No audio attachments found. Nothing to transcribe."]
            /\ tasks[d] = <<>>
            /\ unit[d] = <<>>

C5_Witness ==
    \E d \in Received :
        /\ HasMessage(d)
        /\ response[d].status_code = 204
        /\ Len(AttachmentsOf(d)) = 2
        /\ AudioIdx(AttachmentsOf(d)) = {}
        /\ \E i \in 1..2 : AttachmentsOf(d)[i].media_type = "image"

-----------------------------------------------------------------------------
(* C6: the units scheduled for a payload are exactly the attachments whose *)
(* media type is "audio" (and not "Audio"), in their order in the payload  *)
(* and unchanged; an empty list gives none, and filtering the result again *)
(* returns it unchanged.                                                   *)
C6_AudioFilter ==
    \A d \in Deliveries :
        HasMessage(d) =>
            LET atts == AttachmentsOf(d)
                out == audio_attachments(atts)
            IN /\ Len(out) = Cardinality(AudioIdx(atts))
               /\ \A k \in 1..Len(out) : out[k] = atts[Nth(AudioIdx(atts), k)]
               /\ tasks[d] = out
               /\ atts = <<>> => out = <<>>
               /\ audio_attachments(out) = out

\* "Audio" came before "audio" in a payload and only the latter was scheduled
C6_Witness ==
    \E d \in Deliveries :
        /\ HasMessage(d)
        /\ Len(AttachmentsOf(d)) = 2
        /\ AttachmentsOf(d)[1].media_type = "Audio"
        /\ AttachmentsOf(d)[2].media_type = "audio"
        /\ tasks[d] = <<AttachmentsOf(d)[2]>>

-----------------------------------------------------------------------------
(* C7: right after a unit has written its transcript, the file holds the   *)
(* segments' texts in order with one space between two of them, less the   *)
(* whitespace at both ends, and nothing else; <<"Hello", "world">> gives   *)
(* "Hello world".                                                          *)

RECURSIVE Offset(_, _)
\* where the i-th text starts in the joined string, counting from 0
Offset(texts, i) == IF i = 1 THEN 0 ELSE Offset(texts, i - 1) + Len(texts[i - 1]) + 1

JoinedLen(texts) ==
    IF texts = <<>> THEN 0 ELSE Offset(texts, Len(texts)) + Len(texts[Len(texts)])

\* the joined string, position by position
Joined(texts) ==
    [k \in 1..JoinedLen(texts) |->
        IF \E i \in 1..Len(texts) : k - Offset(texts, i) \in 1..Len(texts[i])
        THEN LET i == CHOOSE i \in 1..Len(texts) : k - Offset(texts, i) \in 1..Len(texts[i])
             IN texts[i][k - Offset(texts, i)]
        ELSE " "]

\* c is j without the whitespace at its two ends
IsTrimOf(c, j) ==
    /\ \E a \in 0..Len(j) : \E b \in a..Len(j) :
         /\ c = SubSeq(j, a + 1, b)
         /\ \A k \in 1..a : j[k] \in Whitespace
         /\ \A k \in (b + 1)..Len(j) : j[k] \in Whitespace
    /\ c # <<>> => (c[1] \notin Whitespace /\ c[Len(c)] \notin Whitespace)

C7_TranscriptText ==
    \A id \in Scheduled :
        U(id).pc = "persisted" =>
            LET path == transcription_filename(U(id).attachment)
                texts == U(id).transcription.segments
            IN /\ Exists(path)
               /\ IsTrimOf(fs[path].data, Joined(texts))
               /\ texts = <<Hello, World>> =>
                    fs[path].data =
                      <<"H", "e", "l", "l", "o", " ", "w", "o", "r", "l", "d">>

\* a transcript was written from segments with whitespace at both ends
C7_Witness ==
    \E id \in Scheduled :
        /\ U(id).pc = "persisted"
        /\ U(id).transcription.segments = << <<" ", "a">>, <<"b", "\n">> >>
        /\ fs[transcription_filename(U(id).attachment)].data = <<"a", " ", "b">>

-----------------------------------------------------------------------------
(* C8: a unit changes state only along Pending, Downloading, Downloaded,   *)
(* Transcribing, Transcribed, Persisted, Cleaned, or from Downloading or   *)
(* Transcribing to Failed; a unit that has stopped is in Cleaned or Failed.*)

StateOrder ==
    { <<"Pending", "Downloading">>, <<"Downloading", "Downloaded">>,
      <<"Downloaded", "Transcribing">>, <<"Transcribing", "Transcribed">>,
      <<"Transcribed", "Persisted">>, <<"Persisted", "Cleaned">>,
      <<"Downloading", "Failed">>, <<"Transcribing", "Failed">> }

StateStep ==
    \A d \in Deliveries :
        /\ \A i \in 1..Len(unit[d]) :
             \/ State(unit'[d][i]) = State(unit[d][i])
             \/ <<State(unit[d][i]), State(unit'[d][i])>> \in StateOrder
        /\ \A i \in (Len(unit[d]) + 1)..Len(unit'[d]) : State(unit'[d][i]) = "Pending"

StopsCleanedOrFailed ==
    \A id \in Scheduled : Stopped(id) => State(U(id)) \in {"Cleaned", "Failed"}

-----------------------------------------------------------------------------
(* C9: a unit whose download failed has logged the failure, has not called *)
(* the Transcriber, has written no transcript and has made no attempt to   *)
(* delete, or otherwise refer to, the downloaded file's path.              *)
C9_DownloadFailure ==
    \A id \in Scheduled :
        DownloadFailure(id) =>
            /\ "error_processing" \in U(id).log \/ U(id).pc = "raised"
            /\ U(id).transcribes = 0
            /\ ~U(id).wrote
            /\ U(id).cleanup = "none"

-----------------------------------------------------------------------------
(* C10: in the step by which a unit whose download returned a path stops,  *)
(* whether its transcription succeeded or failed, the unit has run         *)
(* os.remove on that path and no file is left there.                       *)
StopsWithoutAudioFile ==
    \A d \in Deliveries : \A i \in 1..Len(unit[d]) :
        (unit[d][i].pc # "stopped" /\ unit'[d][i].pc = "stopped"
            /\ unit'[d][i].audio_path # Unbound) =>
            /\ unit'[d][i].audio_path = local_filename(unit[d][i].attachment)
            /\ unit'[d][i].cleanup \in {"removed", "missing"}
            /\ unit'[d][i].audio_path \notin DOMAIN fs'

-----------------------------------------------------------------------------
(* C11 as claimed: a unit whose transcription failed has logged the        *)
(* failure and stops in Failed with no transcript written and with the     *)
(* downloaded audio file left where it is, undeleted.                      *)

TranscriptionFailure(id) == "transcription_failed" \in U(id).log

C11_FileLeftUndeleted ==
    \A id \in Scheduled :
        (Stopped(id) /\ TranscriptionFailure(id)) =>
            /\ "error_processing" \in U(id).log
            /\ State(U(id)) = "Failed"
            /\ ~U(id).wrote
            /\ U(id).cleanup = "none"
            /\ Exists(U(id).audio_path)

(* C11 as amended: a unit whose transcription failed has logged the        *)
(* failure and stops in Failed with no transcript written, after running   *)
(* os.remove on the downloaded audio file; in the step by which it stops   *)
(* no file is left at that path.                                           *)
FailedTranscriptionCleansUp ==
    \A id \in Scheduled :
        (Stopped(id) /\ TranscriptionFailure(id)) =>
            /\ "error_processing" \in U(id).log
            /\ State(U(id)) = "Failed"
            /\ ~U(id).wrote
            /\ U(id).transcription = NoTranscription
            /\ U(id).cleanup \in {"removed", "missing"}

FailedTranscriptionStep ==
    \A d \in Deliveries : \A i \in 1..Len(unit[d]) :
        (unit[d][i].pc = "failed" /\ unit[d][i].transcribes = 1
            /\ unit'[d][i].pc = "stopped") =>
            unit[d][i].audio_path \notin DOMAIN fs'

C11_FileDeletedAfterFailure ==
    []FailedTranscriptionCleansUp /\ [][FailedTranscriptionStep]_vars

\* a unit stopped in Failed after a failed transcription, its file removed
C11_Witness ==
    \E id \in Scheduled :
        /\ Stopped(id)
        /\ TranscriptionFailure(id)
        /\ U(id).failed
        /\ U(id).cleanup = "removed"
        /\ U(id).error = "UnboundLocalError"
        /\ ~Exists(U(id).audio_path)
        /\ ~Exists(transcription_filename(U(id).attachment))

-----------------------------------------------------------------------------
(* C12: on the success path the transcript is written while the downloaded *)
(* file is still there, at data/{id}_{stem}_transcription.txt; in the step *)
(* by which the unit ends the downloaded file goes and the transcript      *)
(* stays, and the transcript is there ever after.                          *)

SuccessPath(u) == u.pc \in {"persisted", "stopped"} /\ ~u.failed

TranscriptBeforeCleanup ==
    \A id \in Scheduled :
        /\ U(id).pc = "persisted" =>
             /\ Exists(U(id).audio_path)
             /\ U(id).cleanup = "none"
        /\ SuccessPath(U(id)) =>
             /\ U(id).wrote
             /\ Exists(DataDir \o U(id).attachment.id \o <<"_">>
                         \o splitext_root(U(id).attachment.filename) \o TranscriptSuffix)

CleanupStep ==
    \A d \in Deliveries : \A i \in 1..Len(unit[d]) :
        (unit[d][i].pc = "persisted" /\ unit'[d][i].pc = "stopped") =>
            /\ unit[d][i].audio_path \in DOMAIN fs
            /\ unit[d][i].audio_path \notin DOMAIN fs'
            /\ transcription_filename(unit[d][i].attachment) \in DOMAIN fs'
            /\ unit'[d][i].cleanup = "removed"

C12_WriteThenDelete == []TranscriptBeforeCleanup /\ [][CleanupStep]_vars

\* a unit ended on the success path: its transcript is there, named with the
\* stem of the filename, and its downloaded file is not
C12_Witness ==
    \E id \in Scheduled :
        /\ Stopped(id)
        /\ ~U(id).failed
        /\ U(id).attachment = AudioA
        /\ Exists(DataDir \o <<"a", "_", "v">> \o TranscriptSuffix)
        /\ ~Exists(U(id).audio_path)

-----------------------------------------------------------------------------
(* C13: when download_audio_file fails, whatever the cause, no file is     *)
(* left at the destination path by that call: a failure before the file    *)
(* was opened leaves the file system as it was, and a failure after it     *)
(* leaves no file at the path.                                             *)
DownloadFailureStep ==
    \A d \in Deliveries : \A i \in 1..Len(unit[d]) :
        /\ (unit[d][i].pc = "get" /\ unit'[d][i].pc = "raised") => fs' = fs
        /\ (unit[d][i].pc = "read" /\ unit'[d][i].pc = "raised") =>
               local_filename(unit[d][i].attachment) \notin DOMAIN fs'

C13_NoPartialFile == [][DownloadFailureStep]_vars

-----------------------------------------------------------------------------
(* C14: a unit holds a downloaded file's path only if the response status  *)
(* was 200; on any other status the download fails with a detail that      *)
(* names the status, and in the step that sees the status the file system  *)
(* stays as it was.                                                        *)

StatusChecked ==
    \A id \in Scheduled :
        /\ (U(id).audio_path # Unbound \/ U(id).pc \in {"read", "closing"}) =>
               U(id).status = 200
        /\ U(id).status \notin {0, 200} =>
               /\ U(id).audio_path = Unbound
               /\ DownloadFailure(id)
               /\ U(id).transcribes = 0
               /\ U(id).cause =
                    "Failed to download audio file: 500: Failed to download audio file: HTTP "
                      \o ToString(U(id).status)

StatusStep ==
    \A d \in Deliveries : \A i \in 1..Len(unit[d]) :
        (unit[d][i].status = 0 /\ unit'[d][i].status \notin {0, 200}) => fs' = fs

C14_Status200Only == []StatusChecked /\ [][StatusStep]_vars

\* a download was answered 206 and failed; nothing is at its destination
C14_Witness ==
    \E id \in Scheduled :
        /\ U(id).status = 206
        /\ U(id).pc = "raised"
        /\ ~Exists(local_filename(U(id).attachment))

-----------------------------------------------------------------------------
(* C15: no retry.  A unit calls the Downloader at most once and the        *)
(* Transcriber at most once, and once a download or a transcription of the *)
(* unit has failed, the unit calls neither again.                          *)

CalledOnce ==
    \A id \in Scheduled : U(id).downloads <= 1 /\ U(id).transcribes <= 1

NoCallAfterFailure ==
    \A d \in Deliveries : \A i \in 1..Len(unit[d]) :
        ({"download_failed", "transcription_failed"} \cap unit[d][i].log # {}) =>
            /\ unit'[d][i].downloads = unit[d][i].downloads
            /\ unit'[d][i].transcribes = unit[d][i].transcribes
            /\ unit'[d][i].pc \in {"raised", "failed", "stopped"}

C15_NoRetry == []CalledOnce /\ [][NoCallAfterFailure]_vars

\* a unit stopped after its download timed out, having made one download
\* call and no transcription call
C15_Witness ==
    \E id \in Scheduled :
        /\ Stopped(id)
        /\ U(id).cause = "Failed to download audio file: timeout"
        /\ U(id).downloads = 1
        /\ U(id).transcribes = 0

-----------------------------------------------------------------------------
(* C16: the response of a delivery is fixed by its payload alone.  While a *)
(* request is being handled its response is the one its payload calls for, *)
(* whatever units of other deliveries have done by then, so that two       *)
(* requests with the same payload have the same response; and no response, *)
(* once made, is changed by what becomes of the units.                     *)

ExpectedResponse(p) ==
    IF p.latest_message = NoMessage
    THEN [status_code |-> 204, detail |-> "No message found. Nothing to process."]
    ELSE IF Len(p.latest_message.attachments) = 0
    THEN [status_code |-> 204,
          detail |-> "No attachments found on latest message. Nothing to process."]
    ELSE IF AudioIdx(p.latest_message.attachments) = {}
    THEN [status_code |-> 204,
          detail |-> "No audio attachments found. Nothing to transcribe."]
    ELSE [status_code |-> 202,
          status |-> "success",
          message |-> "Found "
                        \o ToString(Cardinality(AudioIdx(p.latest_message.attachments)))
                        \o " audio attachments. Sent for transcription."]

ResponseByPayload ==
    /\ \A d \in Received : response[d] = ExpectedResponse(payload[d])
    /\ \A d, e \in Received : payload[d] = payload[e] => response[d] = response[e]

ResponseKept ==
    \A d \in Deliveries : response[d] # NoResponse => response'[d] = response[d]

C16_ResponseFromPayload == []ResponseByPayload /\ [][ResponseKept]_vars

\* a delivery whose only unit failed, and a later request for the same
\* attachment, have the same response
C16_Witness ==
    /\ 1 \in sent
    /\ Len(unit[1]) = 1
    /\ Stopped(<<1, 1>>)
    /\ unit[1][1].failed
    /\ HasMessage(2)
    /\ AttachmentsOf(2) = tasks[1]
    /\ response[2] = response[1]
    /\ response[2].status_code = 202

-----------------------------------------------------------------------------
(* C17: two units that have started, for attachments of different ids,     *)
(* have different download paths and different transcript paths, whatever  *)
(* the filenames; and no step of a unit changes or removes a file made by  *)
(* a unit of another id.                                                   *)

DistinctPaths ==
    \A id, other \in Scheduled :
        (U(id).attachment.id # U(other).attachment.id
            /\ U(id).pc # "pending" /\ U(other).pc # "pending") =>
            /\ local_filename(U(id).attachment) # local_filename(U(other).attachment)
            /\ transcription_filename(U(id).attachment)
                 # transcription_filename(U(other).attachment)

OwnFilesOnly ==
    \A id \in Scheduled :
        U(id)' # U(id) =>
            \A p \in DOMAIN fs :
                (fs[p].ino \in Scheduled
                    /\ U(fs[p].ino).attachment.id # U(id).attachment.id) =>
                    (p \in DOMAIN fs' /\ fs'[p] = fs[p])

C17_NoNameCollision == []DistinctPaths /\ [][OwnFilesOnly]_vars

-----------------------------------------------------------------------------
(* C18: from the return of a unit's download until the unit removes the    *)
(* file, the file at its audio path exists and holds exactly the chunks    *)
(* that unit wrote, also while a second delivery of the same attachment is *)
(* being processed.                                                        *)

Downloaded(id) == U(id).pc \in {"downloaded", "transcribing", "transcribed", "persisted"}

Intact(id) ==
    /\ Exists(U(id).audio_path)
    /\ fs[U(id).audio_path].data = [k \in 1..U(id).written |-> Chunk(U(id).attachment, k)]

SamePath(id) ==
    {other \in Scheduled \ {id} :
        local_filename(U(other).attachment) = local_filename(U(id).attachment)}

\* the claim as stated: fails when the other delivery's unit opens or
\* removes the file while this unit's download is closing
C18_FileIntact == \A id \in Scheduled : Downloaded(id) => Intact(id)

(* C18, amended: the same, provided no other unit that downloads to the    *)
(* same path has started.                                                  *)
C18_FileIntactAlone ==
    \A id \in Scheduled :
        (Downloaded(id) /\ \A other \in SamePath(id) : U(other).pc = "pending") =>
            Intact(id)

\* a downloaded file of one chunk, with the same attachment scheduled by a
\* second delivery and not started
C18_Witness ==
    \E id \in Scheduled :
        /\ Downloaded(id)
        /\ U(id).written = MaxChunks
        /\ SamePath(id) # {}
        /\ \A other \in SamePath(id) : U(other).pc = "pending"
        /\ Intact(id)

-----------------------------------------------------------------------------
(* C19: every unit that receive_webhook has scheduled is eventually        *)
(* started and eventually stops, in Cleaned or Failed, whatever happens to *)
(* the other units of its delivery.                                        *)

UnitIds == {<<d, i>> : d \in 1..MaxDeliveries, i \in 1..MaxAttachments}

C19_EveryUnitStops ==
    \A id \in UnitIds :
        (id \in Scheduled) ~>
            (id \in Scheduled /\ Stopped(id) /\ State(U(id)) \in {"Cleaned", "Failed"})

====
